---- MODULE Spec2Model ----
(***************************************************************************)
(* Interior layout optimiser: the request handler optimize_interior        *)
(* (backend/app/api/endpoints/interior.py) driving GeneticOptimizer        *)
(* (backend/app/modules/interior/optimizer.py), with the fitness function  *)
(* (fitness.py), the constraint checker (constraints.py) and the geometry  *)
(* helpers (geometry.py).                                                  *)
(*                                                                         *)
(* Units.  Lengths are whole millimetres (the code: metres as floats).     *)
(* Scores are whole 1/10000 of a point.  Percentages are whole 1/100000 of *)
(* a percent.  Rooms are axis-aligned rectangles given by their corner     *)
(* list; furniture footprints are rectangles rotated by a multiple of 90   *)
(* degrees, so every footprint is an axis-aligned box.                     *)
(*                                                                         *)
(* Specifications.  Spec is one request through the handler.  EvalSpec,    *)
(* NormSpec, CrossSpec and GeomSpec apply single steps of it (the          *)
(* evaluation loop, the normalisation, the breeding loop, the geometry     *)
(* queries) to inputs drawn from sets wider than a run of Spec produces.   *)
(* TranslateSpec is translate_detections of the floor-plan backend         *)
(* (Backend/app/services/yolo_integration.py) on drawn detection lists,    *)
(* FloorSpec the analysis and explanation handlers of                      *)
(* Backend/app/api/floorplan.py over their shared explanation store.       *)
(***************************************************************************)
EXTENDS Integers, Sequences, FiniteSets, TLC

\* ---------------------------------------------------------------- scales
MM == 10 * 100          \* millimetres in a metre
Pt == 100 * 100         \* score units in one fitness point
PctUnit == 10 * Pt      \* percentage units in one percent

\* ---------------------------------------------------------------- bounds
MaxGen == 2             \* generations ranges over 1..MaxGen
MaxMutations == 1       \* genes mutated in one run (each has probability 0.1)

\* ------------------------------------------------- helpers on sequences
RECURSIVE SumSeq(_)
SumSeq(s) == IF s = <<>> THEN 0 ELSE Head(s) + SumSeq(Tail(s))

MaxOf(S) == CHOOSE m \in S : \A k \in S : k <= m
MinOf(S) == CHOOSE m \in S : \A k \in S : m <= k
Range(s) == {s[i] : i \in DOMAIN s}

\* Python slices s[:k] and s[k:] (k is a 0-based cut, 0 <= k)
SliceTo(s, k) == SubSeq(s, 1, MinOf({k, Len(s)}))
SliceFrom(s, k) == SubSeq(s, MinOf({k, Len(s)}) + 1, Len(s))

\* round(v / unit) to the nearest whole, ties to even (Python's round)
RoundHalfEven(v, unit) ==
    LET q == v \div unit
        r == v % unit
    IN  IF 2 * r > unit \/ (2 * r = unit /\ q % 2 = 1) THEN q + 1 ELSE q

\* ------------------------------------------------------- request inputs
\* Furniture records as the handler builds them (interior.py:41-49); the
\* dimensions are those of src/test_optimizer.py.
Bed == [id |-> "bed", width |-> 2000, depth |-> 1500, rotatable |-> TRUE]
Wardrobe == [id |-> "wardrobe", width |-> 1500, depth |-> 600, rotatable |-> FALSE]

FurnitureInputs == { <<>>, <<Bed>>, <<Bed, Wardrobe>> }

\* A 4m x 4m square room (src/test_optimizer.py:18) and a degenerate
\* two-vertex "room".
SquareRoom == << <<0, 0>>, <<4 * MM, 0>>, <<4 * MM, 4 * MM>>, <<0, 4 * MM>> >>
TwoPointRoom == << <<0, 0>>, <<4 * MM, 0>> >>
RoomInputs == {SquareRoom, TwoPointRoom}

\* population_size: an odd and an even value (the handler passes 100, the
\* test script 20)
PopSizes == {1, 2}

\* The state of ml/models/best_model.pth on disk: absent, present but
\* unreadable by torch.load / load_state_dict, or present with weights.
\* The trained network is represented by an affine map of the one layout
\* feature this model varies (norm_avg_x): output = bias + wx * norm_avg_x,
\* both in thousandths of the network's native output.
TrainedWeights == [bias |-> -100, wx |-> 0]
ArtifactInputs == {"missing", "corrupt", "ok"}

\* ---------------------------------------------------------- random draws
Rotations == {0, 90, 180, 270}      \* optimizer.py:52, :73
RotDraws == {90}                    \* the values random.choice is seen to return
InitXs == {1 * MM + 4, 3 * MM}      \* random.uniform(min_x, max_x) samples
InitYs == {2 * MM}                  \* random.uniform(min_y, max_y) samples
Offsets == {0 - (MM \div 2)}        \* random.uniform(-0.5, 0.5) samples

\* ------------------------------------------------------------- geometry
\* A polygon is held as its axis-aligned box.  Polygon(coords) of fewer
\* than three vertices cannot be built (shapely raises ValueError).
PolygonRaises(coords) == Len(coords) < 3

Polygon(coords) ==
    [minx |-> MinOf({coords[i][1] : i \in DOMAIN coords}),
     miny |-> MinOf({coords[i][2] : i \in DOMAIN coords}),
     maxx |-> MaxOf({coords[i][1] : i \in DOMAIN coords}),
     maxy |-> MaxOf({coords[i][2] : i \in DOMAIN coords})]

\* geometry.py create_furniture_polygon: a width x depth rectangle centred
\* on the origin, rotated by angle about the origin, translated to (x, y).
\* A rotation by 90 or 270 degrees swaps the two half-extents.
create_furniture_polygon(x, y, width, depth, angle) ==
    LET half_w == width \div 2
        half_d == depth \div 2
        ex == IF angle \in {90, 270} THEN half_d ELSE half_w
        ey == IF angle \in {90, 270} THEN half_w ELSE half_d
    IN  [minx |-> x - ex, miny |-> y - ey, maxx |-> x + ex, maxy |-> y + ey]

Area(poly) == (poly.maxx - poly.minx) * (poly.maxy - poly.miny)

Centroid(poly) == [x |-> (poly.minx + poly.maxx) \div 2,
                   y |-> (poly.miny + poly.maxy) \div 2]

\* geometry.py check_intersection: the closed boxes share a point
check_intersection(poly1, poly2) ==
    /\ poly1.minx <= poly2.maxx /\ poly2.minx <= poly1.maxx
    /\ poly1.miny <= poly2.maxy /\ poly2.miny <= poly1.maxy

\* geometry.py check_containment: boundary-inclusive containment
check_containment(container, item) ==
    /\ container.minx <= item.minx /\ item.maxx <= container.maxx
    /\ container.miny <= item.miny /\ item.maxy <= container.maxy

\* geometry.py calculate_overlap_area, in square millimetres
calculate_overlap_area(poly1, poly2) ==
    IF ~check_intersection(poly1, poly2) THEN 0
    ELSE (MinOf({poly1.maxx, poly2.maxx}) - MaxOf({poly1.minx, poly2.minx}))
         * (MinOf({poly1.maxy, poly2.maxy}) - MaxOf({poly1.miny, poly2.miny}))

RECURSIVE ISqrt(_, _, _)
ISqrt(n, lo, hi) ==
    IF lo >= hi THEN lo
    ELSE LET mid == (lo + hi + 1) \div 2
         IN  IF mid * mid <= n THEN ISqrt(n, mid, hi) ELSE ISqrt(n, lo, mid - 1)

\* geometry.py distance_to_wall: distance from a point to the boundary of
\* the room (rounded down to a millimetre when the point is outside and
\* nearest to a corner).
distance_to_wall(point, room_poly) ==
    LET inside == /\ room_poly.minx <= point.x /\ point.x <= room_poly.maxx
                  /\ room_poly.miny <= point.y /\ point.y <= room_poly.maxy
        dx == MaxOf({room_poly.minx - point.x, 0, point.x - room_poly.maxx})
        dy == MaxOf({room_poly.miny - point.y, 0, point.y - room_poly.maxy})
    IN  IF inside
        THEN MinOf({point.x - room_poly.minx, room_poly.maxx - point.x,
                    point.y - room_poly.miny, room_poly.maxy - point.y})
        ELSE ISqrt(dx * dx + dy * dy, 0, dx + dy)

\* ---------------------------------------------------- constraints.py
create_furniture_polygon_wrapper(item, x, y, rot) ==
    create_furniture_polygon(x, y, item.width, item.depth, rot)

check_boundary(room_poly, furniture_poly) ==
    check_containment(room_poly, furniture_poly)

OverlapTolerance == (MM * MM) \div 100    \* 0.01 square metres

\* an overlap check that counts footprints that merely touch
check_overlapTouching(furniture_poly, other_polys) ==
    \E k \in DOMAIN other_polys :
        check_intersection(furniture_poly, other_polys[k])

\* an overlap check without the tolerance of line 34
check_overlapNoTolerance(furniture_poly, other_polys) ==
    \E k \in DOMAIN other_polys :
        /\ check_intersection(furniture_poly, other_polys[k])
        /\ calculate_overlap_area(furniture_poly, other_polys[k]) > 0

check_overlap(furniture_poly, other_polys) ==
    \E k \in DOMAIN other_polys :
        /\ check_intersection(furniture_poly, other_polys[k])
        /\ calculate_overlap_area(furniture_poly, other_polys[k]) > OverlapTolerance

check_hard_constraints(room_poly, furniture_poly, other_polys) ==
    IF ~check_boundary(room_poly, furniture_poly) THEN FALSE
    ELSE IF check_overlap(furniture_poly, other_polys) THEN FALSE
    ELSE TRUE

get_nearest_wall_distance(room_poly, furniture_poly) ==
    distance_to_wall(Centroid(furniture_poly), room_poly)

\* -------------------------------------------------------- fitness.py
OutsidePenaltyAsOverlap == 500 * Pt           \* the two weights confused
OutsidePenalty == 1000 * Pt                   \* penalty += 1000
OverlapWeightForgotten == 0 * Pt              \* the overlap never charged
OverlapWeight == (500 * Pt) \div (MM * MM)    \* overlap * 500, per mm^2
AlignmentBonus == 10 * Pt                     \* alignment_score += 10
WallDistanceInclusive == MM \div 10 + 1       \* dist <= 0.1
WallDistance == MM \div 10                    \* dist < 0.1

\* the footprints of a layout, one per furniture item, in item order
FurniturePolys(items, layout) ==
    [i \in 1..Len(items) |->
        create_furniture_polygon_wrapper(items[i], layout[i].x, layout[i].y,
                                         layout[i].rot)]

\* FitnessEvaluator.calculate_fitness
calculate_fitness(room_poly, items, layout) ==
    LET polys == FurniturePolys(items, layout)
        n == Len(polys)
        outside == {i \in 1..n : ~check_boundary(room_poly, polys[i])}
        pairs == {<<i, j>> \in (1..n) \X (1..n) : i < j}
        pair_pen == [pr \in pairs |->
            LET overlap == calculate_overlap_area(polys[pr[1]], polys[pr[2]])
            IN  IF overlap > 0 THEN overlap * OverlapWeight ELSE 0]
        RECURSIVE SumPairs(_)
        SumPairs(S) == IF S = {} THEN 0
                       ELSE LET pr == CHOOSE q \in S : TRUE
                            IN  pair_pen[pr] + SumPairs(S \ {pr})
        penalty == Cardinality(outside) * OutsidePenalty + SumPairs(pairs)
        aligned == {i \in 1..n :
                       get_nearest_wall_distance(room_poly, polys[i]) < WallDistance}
    IN  IF penalty > 0 THEN 0 - penalty
        ELSE Cardinality(aligned) * AlignmentBonus

\* a normalisation whose penalty slope is 0.01 instead of 0.1
calculate_normalized_scoreShallow(items, raw_fitness) ==
    IF raw_fitness < 0
    THEN MaxOf({0, 50 * PctUnit + (raw_fitness * (PctUnit \div (10 * Pt))) \div 10})
    ELSE LET max_score == Len(items) * 10
         IN  IF max_score = 0 THEN 50 * PctUnit
             ELSE MinOf({100 * PctUnit,
                         50 * PctUnit
                           + (raw_fitness * 50 * (PctUnit \div Pt)) \div max_score})

\* a normalisation without the min(100.0, ...) of line 83
calculate_normalized_scoreUnclamped(items, raw_fitness) ==
    IF raw_fitness < 0
    THEN MaxOf({0, 50 * PctUnit + raw_fitness * (PctUnit \div (10 * Pt))})
    ELSE LET max_score == Len(items) * 10
         IN  IF max_score = 0 THEN 50 * PctUnit
             ELSE 50 * PctUnit + (raw_fitness * 50 * (PctUnit \div Pt)) \div max_score

\* FitnessEvaluator.calculate_normalized_score
calculate_normalized_score(items, raw_fitness) ==
    IF raw_fitness < 0
    THEN MaxOf({0, 50 * PctUnit + raw_fitness * (PctUnit \div (10 * Pt))})
    ELSE LET max_score == Len(items) * 10
         IN  IF max_score = 0 THEN 50 * PctUnit
             ELSE MinOf({100 * PctUnit,
                         50 * PctUnit
                           + (raw_fitness * 50 * (PctUnit \div Pt)) \div max_score})

\* ------------------------------------------------------- optimizer.py
NegInf == -2000000000           \* float('-inf')
None == 0                       \* the id no list object has

NoModel == [present |-> FALSE, mode |-> "none", bias |-> 0, wx |-> 0]

\* GeneticOptimizer.__init__, lines 27-42: self.ml_model is None unless the
\* artifact exists; it is assigned the freshly constructed network BEFORE
\* the weights are loaded, so a failing load (caught at line 41) leaves the
\* untrained network, still in training mode, in self.ml_model.
LoadModel(art) ==
    CASE art = "missing" -> NoModel
      [] art = "corrupt" -> [present |-> TRUE, mode |-> "train", bias |-> 0, wx |-> 0]
      [] art = "ok" -> [present |-> TRUE, mode |-> "eval",
                        bias |-> TrainedWeights.bias, wx |-> TrainedWeights.wx]

\* create_individual: one placement per furniture item, in item order.
\* The field item records the furniture index the placement was sampled
\* for (the loop variable of line 47); the code keeps it only by position.
RandomGenes(items, i, room_poly) ==
    {[x |-> x, y |-> y, rot |-> r, item |-> i] :
        x \in {v \in InitXs : room_poly.minx <= v /\ v <= room_poly.maxx},
        y \in {v \in InitYs : room_poly.miny <= v /\ v <= room_poly.maxy},
        r \in (IF items[i].rotatable THEN RotDraws ELSE {0})}

create_individual(items, room_poly) ==
    LET n == Len(items)
        G == UNION {RandomGenes(items, i, room_poly) : i \in 1..n}
    IN  {layout \in [1..n -> G] :
            \A i \in 1..n : layout[i] \in RandomGenes(items, i, room_poly)}

\* crossover, lines 58-61: random.randint(1, n - 1) raises ValueError on an
\* empty range; otherwise the children are built from slices (new lists).
CrossoverPoints(items) == 1..(Len(items) - 1)

\* a crossover that joins the two slices in the wrong order
crossoverTailFirst(parent1, parent2, point) ==
    << SliceFrom(parent2, point) \o SliceTo(parent1, point),
       SliceFrom(parent1, point) \o SliceTo(parent2, point) >>

\* a crossover that cuts one position too early
crossoverCutEarly(parent1, parent2, point) ==
    << SliceTo(parent1, point - 1) \o SliceFrom(parent2, point - 1),
       SliceTo(parent2, point - 1) \o SliceFrom(parent1, point - 1) >>

crossover(parent1, parent2, point) ==
    << SliceTo(parent1, point) \o SliceFrom(parent2, point),
       SliceTo(parent2, point) \o SliceFrom(parent1, point) >>

\* mutate, lines 65-75.  muts maps the indices whose random.random() fell
\* below mutation_rate to the draws made for them: the two offsets, whether
\* the second random.random() fell below 0.5, and the rotation then chosen.
MutationDraws ==
    {[dx |-> dx, dy |-> dy, resample |-> FALSE, rot |-> 0] :
        dx \in Offsets, dy \in Offsets}
    \cup
    {[dx |-> dx, dy |-> dy, resample |-> TRUE, rot |-> r] :
        dx \in Offsets, dy \in Offsets, r \in RotDraws}

\* a mutate whose move is twice the drawn offset
mutateWide(individual, muts) ==
    [i \in 1..Len(individual) |->
        IF i \in DOMAIN muts
        THEN [x |-> individual[i].x + 2 * muts[i].dx,
              y |-> individual[i].y + 2 * muts[i].dy,
              rot |-> IF muts[i].resample THEN muts[i].rot ELSE individual[i].rot,
              item |-> individual[i].item]
        ELSE individual[i]]

mutate(individual, muts) ==
    [i \in 1..Len(individual) |->
        IF i \in DOMAIN muts
        THEN [x |-> individual[i].x + muts[i].dx,
              y |-> individual[i].y + muts[i].dy,
              rot |-> IF muts[i].resample THEN muts[i].rot ELSE individual[i].rot,
              item |-> individual[i].item]
        ELSE individual[i]]

\* _get_ml_score, lines 77-108.  The outcomes of one call: a raised
\* exception or a score.  An empty individual divides by zero (line 93).
\* A network left in training mode (never given weights, eval() never
\* called) returns a value the weights file does not determine.
UntrainedOutputs == {100}

NormAvgX(individual, room_poly) ==
    LET xs == [i \in 1..Len(individual) |-> individual[i].x]
        width == room_poly.maxx - room_poly.minx
    IN  IF width > 0 THEN (SumSeq(xs) * 1000) \div (Len(xs) * width) ELSE 0

Denormalize(out) == out * ((100 * Pt) \div 1000)     \* score * 100.0

get_ml_score(model, individual, room_poly) ==
    IF ~model.present THEN {[raises |-> FALSE, score |-> 0]}
    ELSE IF Len(individual) = 0 THEN {[raises |-> TRUE, score |-> 0]}
    ELSE IF model.mode = "train"
         THEN {[raises |-> FALSE, score |-> Denormalize(o)] : o \in UntrainedOutputs}
    ELSE {[raises |-> FALSE,
           score |-> Denormalize(model.bias
                       + (model.wx * NormAvgX(individual, room_poly)) \div 1000)]}

\* lines 124-129: the score of one individual
HybridScore(geo_score, ml_score) == (geo_score * 7 + ml_score * 3) \div 10

\* lines 134-137: the best-ever pair after one generation's evaluation
FirstIndex(scores, v) == MinOf({k \in DOMAIN scores : scores[k] = v})

\* best tracking without the comparison of line 135
TrackBestNoCompare(pop, scores, solution, fitness) ==
    LET max_fitness == MaxOf(Range(scores))
    IN  [solution |-> pop[FirstIndex(scores, max_fitness)], fitness |-> max_fitness]

\* best tracking that keeps the lowest score instead of the highest
TrackBestLowest(pop, scores, solution, fitness) ==
    LET min_fitness == MinOf(Range(scores))
    IN  IF solution = None \/ min_fitness < fitness
        THEN [solution |-> pop[FirstIndex(scores, min_fitness)], fitness |-> min_fitness]
        ELSE [solution |-> solution, fitness |-> fitness]

\* best tracking that records the first member whatever its score
TrackBestFirstMember(pop, scores, solution, fitness) ==
    LET max_fitness == MaxOf(Range(scores))
    IN  IF max_fitness > fitness
        THEN [solution |-> pop[1], fitness |-> max_fitness]
        ELSE [solution |-> solution, fitness |-> fitness]

TrackBest(pop, scores, solution, fitness) ==
    LET max_fitness == MaxOf(Range(scores))
    IN  IF max_fitness > fitness
        THEN [solution |-> pop[FirstIndex(scores, max_fitness)], fitness |-> max_fitness]
        ELSE [solution |-> solution, fitness |-> fitness]

\* line 155: population = new_population[:self.pop_size]
TruncateNothing(new_pop, size) == new_pop     \* the slice forgotten

Truncate(new_pop, size) == SliceTo(new_pop, size)

\* ---------------------------------------------------------------- state
VARIABLES
    pc,                 \* where the request handler is
    room_polygon,       \* request.room_polygon
    furniture_items,    \* furniture_data
    pop_size,           \* self.pop_size
    generations,        \* self.generations
    artifact,           \* the model file on disk
    room_poly,          \* self.room_poly
    ml_model,           \* self.ml_model
    heap,               \* the list objects: id -> sequence of placements
    next_id,            \* the id of the next list object
    population,         \* ids
    gen,                \* the loop variable of line 118
    fitness_scores,
    best_solution,      \* an id, or None
    best_fitness,
    new_population,     \* ids
    mutated,            \* genes mutated so far in the run
    ml_consulted,       \* history: the network has been called
    top,                \* history: the highest score given so far and the
                        \* layouts that received it
    response,           \* what the handler returns
    probe               \* inputs and results of operations applied to drawn
                        \* inputs, outside a run of the optimizer

vars == << pc, room_polygon, furniture_items, pop_size, generations, artifact,
           room_poly, ml_model, heap, next_id, population, gen, fitness_scores,
           best_solution, best_fitness, new_population,
           mutated, ml_consulted, top, response, probe >>

NoResponse == [status |-> 0, fitness |-> 0, score_percentage |-> 0, layout |-> <<>>]
NoPoly == [minx |-> 0, miny |-> 0, maxx |-> 0, maxy |-> 0]
EmptyHeap == [i \in {} |-> <<>>]

Alloc(h, id, value) == [i \in DOMAIN h \cup {id} |-> IF i = id THEN value ELSE h[i]]

Init ==
    /\ pc = "request"
    /\ room_polygon \in RoomInputs
    /\ furniture_items \in FurnitureInputs
    /\ pop_size \in PopSizes
    /\ generations \in 1..MaxGen
    /\ artifact \in ArtifactInputs
    /\ room_poly = NoPoly
    /\ ml_model = NoModel
    /\ heap = EmptyHeap
    /\ next_id = 1
    /\ population = <<>>
    /\ gen = 0
    /\ fitness_scores = <<>>
    /\ best_solution = None
    /\ best_fitness = NegInf
    /\ new_population = <<>>
    /\ mutated = 0
    /\ ml_consulted = FALSE
    /\ top = [fit |-> NegInf, layouts |-> {}]
    /\ response = NoResponse
    /\ probe = <<>>

\* interior.py:82-83: any exception becomes an HTTP 500
Fail ==
    /\ pc' = "failed"
    /\ response' = [NoResponse EXCEPT !.status = 500]

\* -------------------------------------------------------------- actions
\* interior.py:36-58 and GeneticOptimizer.__init__: build the room polygon
\* and the furniture records, construct the optimizer, load the network.
Construct ==
    /\ pc = "request"
    /\ IF PolygonRaises(room_polygon)
       THEN /\ Fail
            /\ UNCHANGED << room_poly, ml_model >>
       ELSE /\ room_poly' = Polygon(room_polygon)
            /\ ml_model' = LoadModel(artifact)
            /\ pc' = "populate"
            /\ UNCHANGED response
    /\ UNCHANGED << probe, room_polygon, furniture_items, pop_size, generations, artifact,
                    heap, next_id, population, gen, fitness_scores, best_solution,
                    best_fitness, new_population, mutated,
                    ml_consulted, top >>

\* optimizer.py:113: one create_individual() of the list comprehension
CreateIndividual ==
    /\ pc = "populate"
    /\ Len(population) < pop_size
    /\ \E layout \in create_individual(furniture_items, room_poly) :
          /\ heap' = Alloc(heap, next_id, layout)
          /\ population' = Append(population, next_id)
          /\ next_id' = next_id + 1
    /\ pc' = IF Len(population) + 1 = pop_size THEN "evaluate" ELSE "populate"
    /\ UNCHANGED << probe, room_polygon, furniture_items, pop_size, generations, artifact,
                    room_poly, ml_model, gen, fitness_scores, best_solution,
                    best_fitness, new_population, mutated,
                    ml_consulted, top, response >>

\* optimizer.py:121-131: one iteration of "for ind in population"
EvaluateIndividual ==
    /\ pc = "evaluate"
    /\ Len(fitness_scores) < Len(population)
    /\ LET ind == heap[population[Len(fitness_scores) + 1]]
           geo_score == calculate_fitness(room_poly, furniture_items, ind)
       IN  IF ml_model.present
           THEN \E out \in get_ml_score(ml_model, ind, room_poly) :
                   /\ ml_consulted' = TRUE
                   /\ IF out.raises
                      THEN /\ Fail
                           /\ UNCHANGED << fitness_scores, top >>
                      ELSE LET final_score == HybridScore(geo_score, out.score)
                           IN  /\ fitness_scores' = Append(fitness_scores, final_score)
                               /\ top' = IF final_score > top.fit
                                         THEN [fit |-> final_score, layouts |-> {ind}]
                                         ELSE IF final_score = top.fit
                                         THEN [top EXCEPT !.layouts = @ \cup {ind}]
                                         ELSE top
                               /\ pc' = IF Len(fitness_scores) + 1 = Len(population)
                                        THEN "track" ELSE "evaluate"
                               /\ UNCHANGED response
           ELSE /\ fitness_scores' = Append(fitness_scores, geo_score)
                /\ top' = IF geo_score > top.fit
                          THEN [fit |-> geo_score, layouts |-> {ind}]
                          ELSE IF geo_score = top.fit
                          THEN [top EXCEPT !.layouts = @ \cup {ind}]
                          ELSE top
                /\ pc' = IF Len(fitness_scores) + 1 = Len(population)
                         THEN "track" ELSE "evaluate"
                /\ UNCHANGED << ml_consulted, response >>
    /\ UNCHANGED << probe, room_polygon, furniture_items, pop_size, generations, artifact,
                    room_poly, ml_model, heap, next_id, population, gen,
                    best_solution, best_fitness, new_population,
                    mutated >>

\* optimizer.py:133-140: track the best, start the new population
Track ==
    /\ pc = "track"
    /\ LET best == TrackBest(population, fitness_scores, best_solution, best_fitness)
       IN  /\ best_solution' = best.solution
           /\ best_fitness' = best.fitness
    /\ new_population' = <<>>
    /\ pc' = "reproduce"
    /\ UNCHANGED << probe, room_polygon, furniture_items, pop_size, generations, artifact,
                    room_poly, ml_model, heap, next_id, population, gen,
                    fitness_scores, mutated, ml_consulted, top,
                    response >>

\* the draws of one mutate call, within the run's mutation budget
MutationChoices(individual, used) ==
    UNION {[S -> MutationDraws] :
              S \in {T \in SUBSET (1..Len(individual)) :
                        used + Cardinality(T) <= MaxMutations}}

\* an extend that puts the first parent back in place of the first child
OffspringWithParent(p1, p2, c1, c2) == << p1, c2 >>

\* line 153: what one pass hands to new_population.extend
Offspring(p1, p2, c1, c2) == << c1, c2 >>

\* optimizer.py:141-153: one pass of "while len(new_population) < pop_size".
\* Two parents are population[random.randint(0, pop_size - 1)]; crossover
\* builds two new lists (or raises when there is no cut point); mutate
\* changes each new list in place; both are appended.
Reproduce ==
    /\ pc = "reproduce"
    /\ Len(new_population) < pop_size
    /\ \E i \in 1..pop_size, j \in 1..pop_size :
          LET p1 == population[i]
              p2 == population[j]
              c1 == next_id
              c2 == next_id + 1
          IN  IF CrossoverPoints(furniture_items) = {}
              THEN /\ Fail
                   /\ UNCHANGED << heap, next_id, new_population, mutated >>
              ELSE \E point \in CrossoverPoints(furniture_items) :
                     LET children == crossover(heap[p1], heap[p2], point)
                         h0 == Alloc(Alloc(heap, c1, children[1]), c2, children[2])
                     IN  \E m1 \in MutationChoices(h0[c1], mutated) :
                           LET h1 == [h0 EXCEPT ![c1] = mutate(h0[c1], m1)]
                               used == mutated + Cardinality(DOMAIN m1)
                           IN  \E m2 \in MutationChoices(h1[c2], used) :
                                 /\ heap' = [h1 EXCEPT ![c2] = mutate(h1[c2], m2)]
                                 /\ mutated' = used + Cardinality(DOMAIN m2)
                                 /\ next_id' = next_id + 2
                                 /\ new_population' = new_population \o Offspring(p1, p2, c1, c2)
                                 /\ pc' = IF Len(new_population) + 2 < pop_size
                                          THEN "reproduce" ELSE "replace"
                                 /\ UNCHANGED response
    /\ UNCHANGED << probe, room_polygon, furniture_items, pop_size, generations, artifact,
                    room_poly, ml_model, population, gen, fitness_scores,
                    best_solution, best_fitness, ml_consulted, top >>

\* a loop that makes one more pass than range(generations)
LoopContinuesOnceMore(g, n) == g <= n

\* line 118: for gen in range(self.generations)
LoopContinues(g, n) == g < n

\* optimizer.py:155 and the end of one pass of the loop of line 118.  List
\* objects no variable refers to any more are dropped from the heap.
Replace ==
    /\ pc = "replace"
    /\ population' = Truncate(new_population, pop_size)
    /\ heap' = [i \in (Range(population') \cup {best_solution}) \cap DOMAIN heap
                  |-> heap[i]]
    /\ gen' = gen + 1
    /\ fitness_scores' = <<>>
    /\ new_population' = <<>>
    /\ pc' = IF LoopContinues(gen + 1, generations) THEN "evaluate" ELSE "return"
    /\ UNCHANGED << probe, room_polygon, furniture_items, pop_size, generations, artifact,
                    room_poly, ml_model, next_id, best_solution, best_fitness,
                    mutated, ml_consulted, top, response >>

\* round(x, 2) of a length in metres, held in millimetres
Round2(v) == RoundHalfEven(v, 10) * 10
\* round(score_pct, 1), held in tenths of a percent
Round1(pct) == RoundHalfEven(pct, PctUnit \div 10)

\* a formatting that writes each coordinate under the other's key
FormatLayoutSwapped(items, best_layout) ==
    [i \in 1..Len(best_layout) |->
        [id |-> items[i].id, x |-> Round2(best_layout[i].y),
         y |-> Round2(best_layout[i].x), rotation |-> best_layout[i].rot]]

\* interior.py:60-80: normalise the score and format the layout
FormatLayout(items, best_layout) ==
    [i \in 1..Len(best_layout) |->
        [id |-> items[i].id, x |-> Round2(best_layout[i].x),
         y |-> Round2(best_layout[i].y), rotation |-> best_layout[i].rot]]

Respond ==
    /\ pc = "return"
    /\ response' = [status |-> 200,
                    fitness |-> best_fitness,
                    score_percentage |->
                        Round1(calculate_normalized_score(furniture_items, best_fitness)),
                    layout |-> FormatLayout(furniture_items, heap[best_solution])]
    /\ pc' = "done"
    /\ UNCHANGED << probe, room_polygon, furniture_items, pop_size, generations, artifact,
                    room_poly, ml_model, heap, next_id, population, gen,
                    fitness_scores, best_solution, best_fitness, new_population,
                    mutated, ml_consulted, top >>

Next ==
    \/ Construct
    \/ CreateIndividual
    \/ EvaluateIndividual
    \/ Track
    \/ Reproduce
    \/ Replace
    \/ Respond

Spec == Init /\ [][Next]_vars

\* ------------------------------------------- evaluation of drawn layouts
\* calculate_fitness and check_hard_constraints applied to layouts drawn
\* from a grid instead of from the optimizer's random generator: the
\* population is two layouts of the same furniture that differ in at most
\* one placement, evaluated by the loop of optimizer.py:121-131 with no
\* network loaded.
Stool == [id |-> "stool", width |-> 1 * MM, depth |-> 1 * MM, rotatable |-> FALSE]
Crate == [id |-> "crate", width |-> 2 * MM, depth |-> 2 * MM, rotatable |-> FALSE]
Chest == [id |-> "chest", width |-> 2 * MM, depth |-> 2 * MM, rotatable |-> FALSE]
Lamp == [id |-> "lamp", width |-> MM \div 10, depth |-> MM \div 10, rotatable |-> FALSE]
Table == [id |-> "table", width |-> 1 * MM, depth |-> 1 * MM, rotatable |-> FALSE]
Shelf == [id |-> "shelf", width |-> 1 * MM, depth |-> MM \div 5, rotatable |-> TRUE]

EvalFurniture ==
    { <<Stool>>, <<Crate, Chest>>, <<Lamp, Table>>, <<Shelf, Table>>,
      <<Shelf, Table, Lamp>> }

EvalPoints == { <<50, 2 * MM>>, <<100, 2 * MM>>, <<1 * MM, 2 * MM>>,
                <<1900, 2 * MM>>, <<2 * MM, 2 * MM>>, <<2 * MM, 2900>> }

EvalGenes(items, i) ==
    {[x |-> p[1], y |-> p[2], rot |-> r, item |-> i] :
        p \in EvalPoints, r \in (IF items[i].rotatable THEN {0, 90} ELSE {0})}

EvalLayouts(items) ==
    LET n == Len(items)
        G == UNION {EvalGenes(items, i) : i \in 1..n}
    IN  {layout \in [1..n -> G] : \A i \in 1..n : layout[i] \in EvalGenes(items, i)}

EvalInit ==
    /\ pc = "evaluate"
    /\ room_polygon = SquareRoom
    /\ furniture_items \in EvalFurniture
    /\ pop_size = 2
    /\ generations = 1
    /\ artifact = "missing"
    /\ room_poly = Polygon(SquareRoom)
    /\ ml_model = NoModel
    /\ \E first \in EvalLayouts(furniture_items) :
          \E k \in DOMAIN first :
             \E g \in EvalGenes(furniture_items, k) :
                heap = << first, [first EXCEPT ![k] = g] >>
    /\ next_id = 3
    /\ population = << 1, 2 >>
    /\ gen = 0
    /\ fitness_scores = <<>>
    /\ best_solution = None
    /\ best_fitness = NegInf
    /\ new_population = <<>>
    /\ mutated = 0
    /\ ml_consulted = FALSE
    /\ top = [fit |-> NegInf, layouts |-> {}]
    /\ response = NoResponse
    /\ probe = <<>>

\* the footprints of a layout other than footprint i, in item order
OtherPolys(polys, i) ==
    [k \in 1..(Len(polys) - 1) |-> IF k < i THEN polys[k] ELSE polys[k + 1]]

\* constraints.py:50-59 applied to every footprint of every candidate of
\* the evaluated population against the other footprints of its layout
CheckHardConstraints ==
    /\ pc = "track"
    /\ probe = <<>>
    /\ probe' = [k \in DOMAIN population |->
                    LET polys == FurniturePolys(furniture_items, heap[population[k]])
                    IN  [i \in DOMAIN polys |->
                            check_hard_constraints(room_poly, polys[i],
                                                   OtherPolys(polys, i))]]
    /\ UNCHANGED << pc, room_polygon, furniture_items, pop_size, generations,
                    artifact, room_poly, ml_model, heap, next_id, population, gen,
                    fitness_scores, best_solution, best_fitness, new_population,
                    mutated, ml_consulted, top, response >>

EvalNext ==
    \/ EvaluateIndividual
    \/ CheckHardConstraints

EvalSpec == EvalInit /\ [][EvalNext]_vars

\* ------------------------------------------ normalisation of drawn scores
\* interior.py:63 applied to raw scores drawn from a set instead of
\* produced by a search: two scores r1 <= r2 are normalised, one after the
\* other, for the same furniture list.
NormFurniture == { <<>>, <<Bed>>, <<Bed, Wardrobe>>, <<Shelf, Table, Lamp>> }

RawScores ==
    { 0 - 100000 * Pt, 0 - 501 * Pt, 0 - 500 * Pt, 0 - 500 * Pt + 1, 0 - 250 * Pt,
      0 - 1 * Pt, 0 - 1, 0 * Pt, 1, 5 * Pt, 10 * Pt, 15 * Pt, 20 * Pt, 30 * Pt,
      30 * Pt + 1, 40 * Pt }

NormInit ==
    /\ pc = "normalize"
    /\ room_polygon = SquareRoom
    /\ furniture_items \in NormFurniture
    /\ pop_size = 1
    /\ generations = 1
    /\ artifact = "missing"
    /\ room_poly = Polygon(SquareRoom)
    /\ ml_model = NoModel
    /\ heap = EmptyHeap
    /\ next_id = 1
    /\ population = <<>>
    /\ gen = 0
    /\ fitness_scores = <<>>
    /\ best_solution = None
    /\ best_fitness = NegInf
    /\ new_population = <<>>
    /\ mutated = 0
    /\ ml_consulted = FALSE
    /\ top = [fit |-> NegInf, layouts |-> {}]
    /\ response = NoResponse
    /\ \E r1 \in RawScores, r2 \in RawScores :
          /\ r1 <= r2
          /\ probe = [raw |-> << r1, r2 >>, pct |-> <<>>]

\* score_pct = optimizer.evaluator.calculate_normalized_score(best_fitness)
Normalize ==
    /\ pc = "normalize"
    /\ Len(probe.pct) < Len(probe.raw)
    /\ probe' = [probe EXCEPT !.pct =
                    Append(@, calculate_normalized_score(furniture_items,
                                                         probe.raw[Len(probe.pct) + 1]))]
    /\ UNCHANGED << pc, room_polygon, furniture_items, pop_size, generations,
                    artifact, room_poly, ml_model, heap, next_id, population, gen,
                    fitness_scores, best_solution, best_fitness, new_population,
                    mutated, ml_consulted, top, response >>

NormNext == Normalize

NormSpec == NormInit /\ [][NormNext]_vars

\* ------------------------------------------- breeding from drawn parents
\* One pass of the loop of optimizer.py:141-153 on a population of two
\* evaluated parents drawn from a grid, for furniture lists of two, three
\* and four items; the two parents differ in every placement.
CrossFurniture ==
    { <<Shelf, Table>>, <<Shelf, Table, Lamp>>, <<Shelf, Table, Lamp, Stool>> }

FirstParentPoints == { <<1 * MM, 2 * MM>>, <<1900, 2 * MM>> }
SecondParentPoints == { <<2 * MM, 2 * MM>>, <<2 * MM, 2900>> }

ParentLayouts(items, points) ==
    LET n == Len(items)
        G == {[x |-> p[1], y |-> p[2], rot |-> 0, item |-> i] :
                 p \in points, i \in 1..n}
    IN  {layout \in [1..n -> G] : \A i \in 1..n : layout[i].item = i}

CrossInit ==
    /\ pc = "reproduce"
    /\ room_polygon = SquareRoom
    /\ furniture_items \in CrossFurniture
    /\ pop_size = 2
    /\ generations = 1
    /\ artifact = "missing"
    /\ room_poly = Polygon(SquareRoom)
    /\ ml_model = NoModel
    /\ \E parent1 \in ParentLayouts(furniture_items, FirstParentPoints) :
          \E parent2 \in ParentLayouts(furniture_items, SecondParentPoints) :
             heap = << parent1, parent2 >>
    /\ next_id = 3
    /\ population = << 1, 2 >>
    /\ gen = 0
    /\ fitness_scores = [k \in 1..2 |->
                            calculate_fitness(room_poly, furniture_items, heap[k])]
    /\ LET best == TrackBest(population, fitness_scores, None, NegInf)
       IN  /\ best_solution = best.solution
           /\ best_fitness = best.fitness
           /\ top = [fit |-> best.fitness,
                     layouts |-> {heap[k] : k \in {i \in 1..2 :
                                                     fitness_scores[i] = best.fitness}}]
    /\ new_population = <<>>
    /\ mutated = 0
    /\ ml_consulted = FALSE
    /\ response = NoResponse
    /\ probe = <<>>

CrossNext == Reproduce

CrossSpec == CrossInit /\ [][CrossNext]_vars

\* --------------------------------------- geometry queries on drawn rooms
\* interior.py:38 and geometry.py:36-52 applied to rooms drawn from a set
\* that holds one- and two-vertex lists, too short to be a polygon: the room polygon is
\* built, one footprint is built, and the footprint is tested for
\* containment in, and overlap with, the room.  No function of geometry.py
\* or constraints.py catches an exception, so a failing construction or
\* query surfaces in the handler's except clause (interior.py:82-83).
SmallRoom == << <<0, 0>>, <<2 * MM, 0>>, <<2 * MM, 2 * MM>>, <<0, 2 * MM>> >>
OnePointRoom == << <<0, 0>> >>
GeomRooms == {SquareRoom, SmallRoom, TwoPointRoom, OnePointRoom}

GeomFurniture == { <<Stool>>, <<Lamp>>, <<Shelf>> }

GeomInit ==
    /\ pc = "geometry"
    /\ room_polygon \in GeomRooms
    /\ furniture_items \in GeomFurniture
    /\ pop_size = 1
    /\ generations = 1
    /\ artifact = "missing"
    /\ room_poly = NoPoly
    /\ ml_model = NoModel
    /\ \E layout \in EvalLayouts(furniture_items) : heap = << layout >>
    /\ next_id = 2
    /\ population = << 1 >>
    /\ gen = 0
    /\ fitness_scores = <<>>
    /\ best_solution = None
    /\ best_fitness = NegInf
    /\ new_population = <<>>
    /\ mutated = 0
    /\ ml_consulted = FALSE
    /\ top = [fit |-> NegInf, layouts |-> {}]
    /\ response = NoResponse
    /\ probe = <<>>

\* create_room_polygon, then check_containment and calculate_overlap_area
\* of the room and the footprint: the exception of the constructor, or the
\* two results
GeometryQueries(coords, item, gene) ==
    IF PolygonRaises(coords)
    THEN [raises |-> TRUE, contains |-> FALSE, overlap |-> 0]
    ELSE LET room == Polygon(coords)
             poly == create_furniture_polygon_wrapper(item, gene.x, gene.y, gene.rot)
         IN  [raises |-> FALSE,
              contains |-> check_containment(room, poly),
              overlap |-> calculate_overlap_area(room, poly)]

QueryGeometry ==
    /\ pc = "geometry"
    /\ probe' = GeometryQueries(room_polygon, furniture_items[1], heap[1][1])
    /\ IF probe'.raises
       THEN /\ Fail
            /\ UNCHANGED room_poly
       ELSE /\ pc' = "queried"
            /\ room_poly' = Polygon(room_polygon)
            /\ UNCHANGED response
    /\ UNCHANGED << room_polygon, furniture_items, pop_size, generations,
                    artifact, ml_model, heap, next_id, population, gen,
                    fitness_scores, best_solution, best_fitness, new_population,
                    mutated, ml_consulted, top >>

GeomNext == QueryGeometry

GeomSpec == GeomInit /\ [][GeomNext]_vars

\* ----------------------------------------- translation of YOLO detections
\* Backend/app/services/yolo_integration.py: translate_detections applied
\* to lists of up to MaxDetectionList detections.  Confidences are whole
\* percents; a bounding box is that of the detection's place in the list.
MaxDetectionList == 3

\* the optimizer's variables in the specifications of the floor-plan
\* backend, which does not use them
OptimizerIdle ==
    /\ room_polygon = <<>>
    /\ furniture_items = <<>>
    /\ pop_size = 1
    /\ generations = 1
    /\ artifact = "missing"
    /\ room_poly = NoPoly
    /\ ml_model = NoModel
    /\ heap = EmptyHeap
    /\ next_id = 1
    /\ population = <<>>
    /\ gen = 0
    /\ fitness_scores = <<>>
    /\ best_solution = None
    /\ best_fitness = NegInf
    /\ new_population = <<>>
    /\ mutated = 0
    /\ ml_consulted = FALSE
    /\ top = [fit |-> NegInf, layouts |-> {}]
    /\ response = NoResponse

\* YOLOConfig (core/config.py:8-26); compass_class_id as the test sets it
class_mapping ==
    << <<"bedroom", 0>>, <<"dining", 1>>, <<"entrance", 2>>, <<"kitchen", 3>>,
       <<"living", 4>>, <<"master_bedroom", 5>>, <<"parking", 6>>, <<"pooja", 7>>,
       <<"staircase", 8>>, <<"store_room", 9>>, <<"study_room", 10>>,
       <<"toilet", 11>>, <<"utility", 12>> >>
confidence_threshold == 50
compass_class_id == 10
MaxDetectionsInputs == {1, 2, 100}

ClassIds == {0, compass_class_id, 99}
Confidences == {40, 70, 90}

DetectionLists ==
    UNION {[1..n -> [class_id : ClassIds, confidence : Confidences]] :
              n \in 0..MaxDetectionList}

\* the YOLODetection objects of a request: the drawn class and confidence
\* with the bounding box of place i
WithBoxes(dets) ==
    [i \in DOMAIN dets |->
        [class_id |-> dets[i].class_id, confidence |-> dets[i].confidence,
         bbox |-> << 20 * (i - 1), 20 * (i - 1), 20 * (i - 1) + 10, 20 * (i - 1) + 10 >>]]

\* compass_det = None
NoCompass == [confidence |-> 0 - 1, bbox |-> <<>>]

\* lines 89-98: the compass kept after the loop over dets
RECURSIVE PickCompass(_, _)
PickCompass(dets, compass_det) ==
    IF dets = <<>> THEN compass_det
    ELSE LET det == Head(dets)
         IN  IF det.class_id = compass_class_id
                  /\ (compass_det = NoCompass \/ det.confidence > compass_det.confidence)
             THEN PickCompass(Tail(dets),
                              [confidence |-> det.confidence, bbox |-> det.bbox])
             ELSE PickCompass(Tail(dets), compass_det)

\* lines 101-105: the first name of class_mapping with this class id
RoomType(cid) ==
    LET hits == {k \in DOMAIN class_mapping : class_mapping[k][2] = cid}
    IN  IF hits = {} THEN "" ELSE class_mapping[MinOf(hits)][1]

\* lines 99-112: the room detections, in list order
RECURSIVE RoomDetections(_)
RoomDetections(dets) ==
    IF dets = <<>> THEN <<>>
    ELSE LET det == Head(dets)
         IN  IF det.class_id # compass_class_id /\ RoomType(det.class_id) # ""
             THEN << [label |-> RoomType(det.class_id),
                      confidence |-> det.confidence, bbox |-> det.bbox] >>
                  \o RoomDetections(Tail(dets))
             ELSE RoomDetections(Tail(dets))

IsConfident(det) == det.confidence >= confidence_threshold

\* YOLOIntegrationService.translate_detections
translate_detections(yolo_detections, max_detections) ==
    LET filtered_detections ==
            SliceTo(SelectSeq(yolo_detections, IsConfident), max_detections)
    IN  [room_detections |-> RoomDetections(filtered_detections),
         compass_detection |-> PickCompass(filtered_detections, NoCompass)]

TranslateInit ==
    /\ pc = "translate"
    /\ OptimizerIdle
    /\ \E dets \in DetectionLists, m \in MaxDetectionsInputs :
          probe = [yolo_detections |-> WithBoxes(dets), max_detections |-> m,
                   result |-> <<>>]

TranslateDetections ==
    /\ pc = "translate"
    /\ probe' = [probe EXCEPT !.result =
                    translate_detections(probe.yolo_detections, probe.max_detections)]
    /\ pc' = "translated"
    /\ UNCHANGED << room_polygon, furniture_items, pop_size, generations,
                    artifact, room_poly, ml_model, heap, next_id, population, gen,
                    fitness_scores, best_solution, best_fitness, new_population,
                    mutated, ml_consulted, top, response >>

TranslateNext == TranslateDetections

TranslateSpec == TranslateInit /\ [][TranslateNext]_vars

\* ------------------------------------------------ explanations by analysis
\* Backend/app/api/floorplan.py: the module-level explanation_store, the
\* two analysis handlers that write it under an id made of the current
\* timestamp, and get_explanation that reads it.  The clock is a counter
\* that may or may not have advanced between two requests.
MaxClock == 2

\* the texts generate_explanation returns for the requests drawn
Explanations == {"all rooms compliant", "kitchen misplaced"}

NoReply == [op |-> "none", status |-> 0, id |-> 0, explanation |-> ""]

FloorInit ==
    /\ pc = "serving"
    /\ OptimizerIdle
    /\ probe = [explanation_store |-> [i \in {} |-> ""],
                now |-> 0,
                issued |-> {},
                reply |-> NoReply]

\* datetime.utcnow() has moved on
Tick ==
    /\ pc = "serving"
    /\ probe.now < MaxClock
    /\ probe' = [probe EXCEPT !.now = @ + 1]
    /\ UNCHANGED << pc, room_polygon, furniture_items, pop_size, generations,
                    artifact, room_poly, ml_model, heap, next_id, population, gen,
                    fitness_scores, best_solution, best_fitness, new_population,
                    mutated, ml_consulted, top, response >>

\* analyze_floor_plan (lines 67-104) and analyze_floor_plan_yolo (107-156):
\* either a step before the store raises and the reply is a 500, or the
\* explanation is stored under analysis_<timestamp> and the id returned.
\* issued records, for history, which analysis returned which id.
AnalyzeFloorPlan ==
    /\ pc = "serving"
    /\ \/ probe' = [probe EXCEPT !.reply = [op |-> "analyze", status |-> 500,
                                            id |-> 0, explanation |-> ""]]
       \/ \E explanation \in Explanations :
             LET analysis_id == probe.now
             IN  probe' = [probe EXCEPT
                    !.explanation_store =
                        [i \in DOMAIN @ \cup {analysis_id} |->
                            IF i = analysis_id THEN explanation ELSE @[i]],
                    !.issued = @ \cup {<< analysis_id, explanation >>},
                    !.reply = [op |-> "analyze", status |-> 200,
                               id |-> analysis_id, explanation |-> ""]]
    /\ UNCHANGED << pc, room_polygon, furniture_items, pop_size, generations,
                    artifact, room_poly, ml_model, heap, next_id, population, gen,
                    fitness_scores, best_solution, best_fitness, new_population,
                    mutated, ml_consulted, top, response >>

\* get_explanation (lines 203-226)
GetExplanation ==
    /\ pc = "serving"
    /\ \E analysis_id \in 0..(MaxClock + 1) :
          probe' = [probe EXCEPT !.reply =
              IF analysis_id \notin DOMAIN probe.explanation_store
              THEN [op |-> "explain", status |-> 404, id |-> analysis_id,
                    explanation |-> ""]
              ELSE [op |-> "explain", status |-> 200, id |-> analysis_id,
                    explanation |-> probe.explanation_store[analysis_id]]]
    /\ UNCHANGED << pc, room_polygon, furniture_items, pop_size, generations,
                    artifact, room_poly, ml_model, heap, next_id, population, gen,
                    fitness_scores, best_solution, best_fitness, new_population,
                    mutated, ml_consulted, top, response >>

FloorNext ==
    \/ Tick
    \/ AnalyzeFloorPlan
    \/ GetExplanation

FloorSpec == FloorInit /\ [][FloorNext]_vars

\* ---------------------------------------------------------- properties
ValidRequest == Len(room_polygon) >= 3 /\ Len(furniture_items) >= 1

\* every list object a variable of the run still refers to
Candidates == {heap[id] : id \in DOMAIN heap}

\* a layout with every footprint inside the room and no two footprints
\* sharing positive area
Feasible(layout) ==
    LET polys == FurniturePolys(furniture_items, layout)
    IN  /\ \A i \in DOMAIN polys : check_boundary(room_poly, polys[i])
        /\ \A i, j \in DOMAIN polys :
              i < j => calculate_overlap_area(polys[i], polys[j]) = 0

\* C1: in every candidate produced at any stage, and in the returned
\* layout, an item whose rotatable flag is false has rotation 0.
C1_NonRotatableRotationZero ==
    /\ \A layout \in Candidates : \A i \in DOMAIN layout :
          ~furniture_items[i].rotatable => layout[i].rot = 0
    /\ response.status = 200 =>
          \A i \in DOMAIN response.layout :
              ~furniture_items[i].rotatable => response.layout[i].rotation = 0

\* C2: the fitness optimize returns is the highest score given to any
\* candidate in any generation, and the candidate it returns is one that
\* was given exactly that score when it was evaluated.
C2_ReturnsBestEver ==
    pc \in {"return", "done"} =>
        /\ best_fitness = top.fit
        /\ best_solution \in DOMAIN heap
        /\ heap[best_solution] \in top.layouts

\* C2 witness: a run of several generations has returned a candidate of
\* the initial population, kept as best through the later evaluations.
C2_Witness ==
    /\ pc = "done"
    /\ gen > 1
    /\ best_solution \in 1..pop_size
    /\ mutated > 0
    /\ best_fitness = top.fit

\* C3: for a room of at least three vertices and a non-empty furniture
\* list no step of the run raises.
C3_NoStepRaises == ValidRequest => pc # "failed"

\* C4: when the model file is missing or fails to load, the optimizer has
\* no approximator: it is never called and every score is geometric.
C4_LoadFailureMeansNoApproximator ==
    (artifact \in {"missing", "corrupt"} /\ pc # "request") =>
        /\ ~ml_model.present
        /\ ~ml_consulted

\* C5: in a successful response the percentage is below 50 exactly when
\* the returned layout violates a hard constraint.
C5_FiftyIsFeasibilityBoundary ==
    response.status = 200 =>
        ((response.score_percentage < 50 * 10) <=> ~Feasible(heap[best_solution]))

\* C6: every candidate (population member, crossover child, mutated child,
\* tracked best) has one placement per furniture item, placement i being
\* that of item i, and so has the returned layout.
C6_PositionalCorrespondence ==
    /\ \A layout \in Candidates :
          /\ Len(layout) = Len(furniture_items)
          /\ \A i \in DOMAIN layout : layout[i].item = i
    /\ response.status = 200 =>
          /\ Len(response.layout) = Len(furniture_items)
          /\ \A i \in DOMAIN response.layout :
                response.layout[i].id = furniture_items[i].id

\* C6 witness: a layout of several items has been returned by a run in
\* which crossover and mutation produced children.
C6_Witness ==
    /\ pc = "done"
    /\ Len(furniture_items) >= 2
    /\ mutated > 0
    /\ Len(response.layout) = Len(furniture_items)

\* C7: at the start of every generation, and while it is evaluated and
\* bred from, the population holds exactly pop_size candidates.
C7_PopulationSizeConstant ==
    pc \in {"evaluate", "track", "reproduce"} => Len(population) = pop_size

\* C7 witness: a later generation starts with an odd population size, the
\* second child of the last pair having been discarded.
C7_Witness ==
    /\ pc = "evaluate"
    /\ gen >= 1
    /\ fitness_scores = <<>>
    /\ pop_size % 2 = 1
    /\ Len(population) = pop_size
    /\ next_id > 2 * pop_size + 1

\* C8: a run that has started its search ends only after exactly
\* `generations` full cycles.
C8_FullGenerationBudget ==
    (ValidRequest /\ pc \in {"done", "failed"}) => gen = generations

\* C10: for an empty furniture list or a room of fewer than three vertices
\* no population is initialised and no candidate is evaluated or bred.
C10_RejectedBeforeSearch ==
    (Len(furniture_items) = 0 \/ Len(room_polygon) < 3) =>
        /\ population = <<>>
        /\ fitness_scores = <<>>
        /\ heap = EmptyHeap

\* the footprints of the k-th candidate of the population
PolysOf(k) == FurniturePolys(furniture_items, heap[population[k]])

\* the footprints of candidate k that are not inside the room
NotContained(k) ==
    {i \in DOMAIN PolysOf(k) :
        \/ PolysOf(k)[i].minx < room_poly.minx \/ PolysOf(k)[i].maxx > room_poly.maxx
        \/ PolysOf(k)[i].miny < room_poly.miny \/ PolysOf(k)[i].maxy > room_poly.maxy}

\* the area footprints i and j of candidate k share, in square millimetres
PairOverlap(k, i, j) ==
    LET a == PolysOf(k)[i]
        b == PolysOf(k)[j]
        w == MinOf({a.maxx, b.maxx}) - MaxOf({a.minx, b.minx})
        h == MinOf({a.maxy, b.maxy}) - MaxOf({a.miny, b.miny})
    IN  IF w > 0 /\ h > 0 THEN w * h ELSE 0

\* the overlap areas of candidate k summed over the unordered pairs
OverlapSum(k) ==
    LET n == Len(PolysOf(k))
    IN  SumSeq([i \in 1..n |->
                SumSeq([j \in 1..n |-> IF i < j THEN PairOverlap(k, i, j) ELSE 0])])

Infeasible(k) == NotContained(k) # {} \/ OverlapSum(k) > 0

AllAt(k, x, y) ==
    \A i \in DOMAIN heap[population[k]] :
        heap[population[k]][i].x = x /\ heap[population[k]][i].y = y

\* C11: the score of an infeasible layout is exactly minus (1000 per
\* footprint not contained in the room plus 500 per square metre of overlap
\* summed over the unordered pairs); two 2 x 2 items both at (2, 2) in the
\* 4 x 4 room score -2000.
C11_InfeasiblePenalty ==
    \A k \in DOMAIN fitness_scores :
        /\ Infeasible(k) =>
              fitness_scores[k] =
                  0 - (1000 * Pt * Cardinality(NotContained(k))
                       + OverlapSum(k) * ((500 * Pt) \div (MM * MM)))
        /\ (furniture_items = <<Crate, Chest>> /\ AllAt(k, 2 * MM, 2 * MM)) =>
              fitness_scores[k] = 0 - 2000 * Pt

\* C11 witness: both layouts have been scored; in the first the two
\* 2 x 2 items coincide at the centre, in the second one of them also
\* sticks out of the room.
C11_Witness ==
    /\ furniture_items = <<Crate, Chest>>
    /\ Len(fitness_scores) = 2
    /\ AllAt(1, 2 * MM, 2 * MM)
    /\ Cardinality(NotContained(2)) = 1
    /\ OverlapSum(2) > 0
    /\ fitness_scores[1] = 0 - 2000 * Pt
    /\ fitness_scores[2] < 0 - 1000 * Pt

\* the placements of candidate k whose centre is closer than 0.1 to the
\* nearest side of the room
NearWall(k) ==
    {i \in DOMAIN heap[population[k]] :
        LET g == heap[population[k]][i]
        IN  MinOf({g.x - room_poly.minx, room_poly.maxx - g.x,
                   g.y - room_poly.miny, room_poly.maxy - g.y}) < MM \div 10}

\* C12: the score of a layout with every footprint inside the room and no
\* pair sharing positive area is 10 times the number of footprints whose
\* centroid is closer than 0.1 to the room boundary; it is non-negative
\* and at most 10 times the item count.
C12_FeasibleAlignment ==
    \A k \in DOMAIN fitness_scores :
        ~Infeasible(k) =>
            /\ fitness_scores[k] = 10 * Pt * Cardinality(NearWall(k))
            /\ 0 <= fitness_scores[k]
            /\ fitness_scores[k] <= 10 * Pt * Len(furniture_items)

\* C12 witness: two feasible layouts of lamp and table have been scored;
\* the lamp 0.05 from the wall earns 10, the lamp exactly 0.1 from the
\* wall earns nothing.
C12_Witness ==
    /\ furniture_items = <<Lamp, Table>>
    /\ Len(fitness_scores) = 2
    /\ ~Infeasible(1) /\ ~Infeasible(2)
    /\ heap[1][1].x = 50 /\ heap[2][1].x = MM \div 10
    /\ fitness_scores = << 10 * Pt, 0 >>

\* C13: a raw score of 0 normalises to 50 for every item count, a raw
\* score of -500 or less to 0, a raw score of 10 per item to 100 when there
\* is at least one item, and with no items every non-negative raw score
\* to 50.
C13_NormalizeFixedPoints ==
    pc = "normalize" =>
        \A k \in DOMAIN probe.pct :
            LET r == probe.raw[k]
                n == Len(furniture_items)
            IN  /\ r = 0 => probe.pct[k] = 50 * PctUnit
                /\ r <= 0 - 500 * Pt => probe.pct[k] = 0
                /\ (n > 0 /\ r = 10 * Pt * n) => probe.pct[k] = 100 * PctUnit
                /\ (n = 0 /\ r >= 0) => probe.pct[k] = 50 * PctUnit

\* C13 witness: for two items, -500 has been normalised to 0 and 20 to 100.
C13_Witness ==
    /\ pc = "normalize"
    /\ Len(furniture_items) = 2
    /\ probe.raw = << 0 - 500 * Pt, 20 * Pt >>
    /\ probe.pct = << 0, 100 * PctUnit >>

\* C14: the normalised score lies in [0, 100] for every raw score and item
\* count, and for a fixed item count a higher raw score never gets a lower
\* normalised score.
C14_NormalizeBoundedMonotone ==
    pc = "normalize" =>
        /\ \A k \in DOMAIN probe.pct :
              0 <= probe.pct[k] /\ probe.pct[k] <= 100 * PctUnit
        /\ Len(probe.pct) = 2 =>
              (probe.raw[1] <= probe.raw[2] => probe.pct[1] <= probe.pct[2])

\* C14 witness: for three items a raw score just below zero lands just
\* below 50 and a raw score above 10 per item is held at 100.
C14_Witness ==
    /\ pc = "normalize"
    /\ Len(furniture_items) = 3
    /\ probe.raw = << 0 - 1, 40 * Pt >>
    /\ probe.pct = << 50 * PctUnit - 1, 100 * PctUnit >>

\* the child crossover builds from the head of a up to cut c and the tail
\* of b after it
HeadTail(a, b, c) == [k \in 1..Len(a) |-> IF k <= c THEN a[k] ELSE b[k]]

\* C15: a breeding step picks two parents and a cut c with 1 <= c <= n - 1;
\* the first child is parent 1 before the cut followed by parent 2 from the
\* cut on, the second child the complement, and every list that existed
\* before the step, the parents included, is unchanged by it.
C15_CrossoverSplice ==
    [][ (pc = "reproduce" /\ pc' = "replace") =>
            /\ \A id \in DOMAIN heap :
                  id \in DOMAIN heap' /\ heap'[id] = heap[id]
            /\ mutated' = mutated =>
                  \E i \in DOMAIN population, j \in DOMAIN population :
                     \E c \in 1..(Len(furniture_items) - 1) :
                        /\ heap'[next_id] =
                              HeadTail(heap[population[i]], heap[population[j]], c)
                        /\ heap'[next_id + 1] =
                              HeadTail(heap[population[j]], heap[population[i]], c)
      ]_vars

\* C15 witness: parents [a, b, c, d] and [w, x, y, z] that differ in every
\* placement have been crossed at cut 2 into [a, b, y, z] and [w, x, c, d].
C15_Witness ==
    /\ pc = "replace"
    /\ Len(furniture_items) = 4
    /\ mutated = 0
    /\ \A k \in 1..4 : heap[1][k] # heap[2][k]
    /\ heap[3] = << heap[1][1], heap[1][2], heap[2][3], heap[2][4] >>
    /\ heap[4] = << heap[2][1], heap[2][2], heap[1][3], heap[1][4] >>

RoundedToCentimetre(out, v) ==
    /\ out % (MM \div 100) = 0
    /\ 2 * (out - v) <= MM \div 100
    /\ 2 * (v - out) <= MM \div 100

\* C17 as stated: on success the response holds one record per input item
\* in input order, record i carrying the id of item i and the x, y and
\* rotation of placement i of the best candidate, and the returned ids are
\* the sent ids.
C17_RecordsCarryPlacements ==
    response.status = 200 =>
        /\ Len(response.layout) = Len(furniture_items)
        /\ \A i \in DOMAIN response.layout :
              /\ response.layout[i].id = furniture_items[i].id
              /\ response.layout[i].x = heap[best_solution][i].x
              /\ response.layout[i].y = heap[best_solution][i].y
              /\ response.layout[i].rotation = heap[best_solution][i].rot
        /\ {response.layout[i].id : i \in DOMAIN response.layout}
              = {furniture_items[i].id : i \in DOMAIN furniture_items}

\* C17 amended: as above, except that record i carries the x and y of
\* placement i rounded to two decimals (and its rotation unchanged).
C17_RecordsCarryRoundedPlacements ==
    response.status = 200 =>
        /\ Len(response.layout) = Len(furniture_items)
        /\ \A i \in DOMAIN response.layout :
              /\ response.layout[i].id = furniture_items[i].id
              /\ RoundedToCentimetre(response.layout[i].x, heap[best_solution][i].x)
              /\ RoundedToCentimetre(response.layout[i].y, heap[best_solution][i].y)
              /\ response.layout[i].rotation = heap[best_solution][i].rot
        /\ {response.layout[i].id : i \in DOMAIN response.layout}
              = {furniture_items[i].id : i \in DOMAIN furniture_items}

\* C17 witness: a two-item layout has been returned whose first placement
\* has x = 1.004 in the best candidate and x = 1.0 in the response.
C17_Witness ==
    /\ response.status = 200
    /\ Len(response.layout) = 2
    /\ heap[best_solution][1].x = 1 * MM + 4
    /\ response.layout[1].x = 1 * MM
    /\ response.layout[1].id = "bed"
    /\ response.layout[2].id = "wardrobe"

OnePairOverlapsMore ==
    /\ NotContained(1) = NotContained(2)
    /\ \E i, j \in DOMAIN furniture_items :
          /\ i < j
          /\ PairOverlap(2, i, j) > PairOverlap(1, i, j)
          /\ \A a, b \in DOMAIN furniture_items :
                (a < b /\ << a, b >> # << i, j >>) =>
                    PairOverlap(2, a, b) = PairOverlap(1, a, b)

\* C19: of two infeasible layouts that differ only in that one pair of
\* footprints overlaps strictly more in the second, the second scores
\* strictly lower.
C19_MoreOverlapScoresLower ==
    Len(fitness_scores) = 2 =>
        ((Infeasible(1) /\ Infeasible(2) /\ OnePairOverlapsMore) =>
            fitness_scores[2] < fitness_scores[1])

\* C19 witness: two infeasible three-item layouts have been scored, both
\* with the same footprint outside the room and two overlapping pairs, one
\* of which overlaps more in the second layout.
C19_Witness ==
    /\ Len(fitness_scores) = 2
    /\ Len(furniture_items) = 3
    /\ Infeasible(1) /\ Infeasible(2)
    /\ OnePairOverlapsMore
    /\ NotContained(1) # {}
    /\ Cardinality({pr \in (1..3) \X (1..3) :
                       pr[1] < pr[2] /\ PairOverlap(1, pr[1], pr[2]) > 0}) >= 2
    /\ fitness_scores[2] < fitness_scores[1]

\* C20: the geometry queries never raise on a malformed polygon; for a
\* room of fewer than three vertices the overlap area is 0, containment is
\* false, and the request does not fail.
C20_GeometryNeverRaises ==
    pc \in {"queried", "failed"} =>
        /\ ~probe.raises
        /\ pc # "failed"
        /\ Len(room_polygon) < 3 => (probe.overlap = 0 /\ ~probe.contains)

\* the compass-class detections of the request whose confidence meets the
\* threshold
ConfidentCompasses ==
    {i \in DOMAIN probe.yolo_detections :
        /\ probe.yolo_detections[i].class_id = 10
        /\ probe.yolo_detections[i].confidence >= 50}

\* C21: the compass detection returned is the compass-class detection of
\* highest confidence among all input detections that meet the confidence
\* threshold, wherever it is in the list, and None when there is none.
C21_BestCompassAnywhere ==
    pc = "translated" =>
        IF ConfidentCompasses = {}
        THEN probe.result.compass_detection = NoCompass
        ELSE /\ probe.result.compass_detection # NoCompass
             /\ \A i \in ConfidentCompasses :
                   probe.yolo_detections[i].confidence
                       <= probe.result.compass_detection.confidence
             /\ \E i \in ConfidentCompasses :
                   /\ probe.yolo_detections[i].confidence
                         = probe.result.compass_detection.confidence
                   /\ probe.yolo_detections[i].bbox
                         = probe.result.compass_detection.bbox

\* C22: after any sequence of analyses, a GET of an id an analysis
\* returned answers 200 with the explanation that analysis generated, and
\* a GET of an id no analysis returned answers 404.
C22_ExplanationOfSameAnalysis ==
    (pc = "serving" /\ probe.reply.op = "explain") =>
        /\ \A pair \in probe.issued :
              pair[1] = probe.reply.id =>
                  /\ probe.reply.status = 200
                  /\ probe.reply.explanation = pair[2]
        /\ (\A pair \in probe.issued : pair[1] # probe.reply.id) =>
              probe.reply.status = 404

\* C23: every member of a generation's next population is a list built in
\* that generation by crossover of two members of the current population
\* followed by mutation; no member of the current population and not the
\* best-ever candidate is carried over (so the best fitness inside the
\* population can fall below the best-ever fitness, as the witness shows).
BuiltFromCurrent(child1, child2) ==
    \E i \in 1..pop_size, j \in 1..pop_size, point \in CrossoverPoints(furniture_items) :
        LET children == crossover(heap[population[i]], heap[population[j]], point)
        IN  /\ \E m \in MutationChoices(children[1], 0) : child1 = mutate(children[1], m)
            /\ \E m \in MutationChoices(children[2], 0) : child2 = mutate(children[2], m)

C23_NextPopulationAllFresh ==
    [][ /\ (pc = "reproduce" /\ Len(new_population') > Len(new_population)) =>
            LET n == Len(new_population)
            IN  /\ Len(new_population') = n + 2
                /\ \A k \in {n + 1, n + 2} :
                      new_population'[k] \notin DOMAIN heap
                /\ BuiltFromCurrent(heap'[new_population'[n + 1]],
                                    heap'[new_population'[n + 2]])
        /\ (pc = "replace" /\ pc' # "replace") =>
            /\ Len(population') = pop_size
            /\ \A k \in 1..Len(population') :
                  /\ population'[k] \in Range(new_population)
                  /\ population'[k] \notin Range(population) \cup {best_solution}
      ]_vars

C23_Witness ==
    /\ pc = "track"
    /\ gen >= 1
    /\ response = NoResponse
    /\ MaxOf(Range(fitness_scores)) < best_fitness

\* the genes of out that differ from the list before mutate was applied
ChangedGenes(before, out) == {k \in 1..Len(before) : out[k] # before[k]}

\* a changed gene is the same item moved by at most half a metre along
\* each axis
MovedWithinHalfMetre(before, out) ==
    /\ Len(out) = Len(before)
    /\ \A k \in ChangedGenes(before, out) :
          /\ out[k].item = before[k].item
          /\ out[k].x - before[k].x \in (0 - (MM \div 2))..(MM \div 2)
          /\ out[k].y - before[k].y \in (0 - (MM \div 2))..(MM \div 2)

\* C24: mutate keeps the number of placements, leaves every gene it did
\* not select exactly as it was, moves the x and the y of a selected gene
\* each by an offset within [-0.5, 0.5], and modifies nothing else: not
\* the room, the furniture list or any other candidate.
C24_MutateMovesOnlySelected ==
    [][ (pc = "reproduce" /\ Len(new_population') > Len(new_population)) =>
            /\ room_poly' = room_poly
            /\ furniture_items' = furniture_items
            /\ population' = population
            /\ \A id \in DOMAIN heap :
                  id \in DOMAIN heap' /\ heap'[id] = heap[id]
            /\ \E i \in 1..pop_size, j \in 1..pop_size :
                  \E point \in CrossoverPoints(furniture_items) :
                     LET children == crossover(heap[population[i]],
                                               heap[population[j]], point)
                         c1 == heap'[next_id]
                         c2 == heap'[next_id + 1]
                     IN  /\ MovedWithinHalfMetre(children[1], c1)
                         /\ MovedWithinHalfMetre(children[2], c2)
                         /\ Cardinality(ChangedGenes(children[1], c1))
                               + Cardinality(ChangedGenes(children[2], c2))
                            = mutated' - mutated
      ]_vars

\* C24 witness: one gene of a child of three placements was selected and
\* moved, the other two genes are those of the parents.
C24_Witness ==
    /\ pc = "replace"
    /\ mutated = 1
    /\ Len(furniture_items) = 3
    /\ \E c \in {3, 4}, k \in 1..3 :
          /\ heap[c][k] \notin {heap[1][k], heap[2][k]}
          /\ \A n \in (1..3) \ {k} : heap[c][n] \in {heap[1][n], heap[2][n]}

\* the scores the loop body of optimizer.py:121-131 can give to a layout
FinalScores(model, poly, items, layout) ==
    LET geo_score == calculate_fitness(poly, items, layout)
    IN  IF model.present
        THEN {HybridScore(geo_score, out.score) :
                 out \in {o \in get_ml_score(model, layout, poly) : ~o.raises}}
        ELSE {geo_score}

\* C26: from the step that records a candidate as best-ever on, no step
\* (selection, crossover, mutation, replacement) changes a placement of
\* that list object for as long as it stays the best-ever, and scoring the
\* returned layout again gives exactly the returned fitness.
C26_BestEverUntouched ==
    [][ /\ (best_solution # None /\ best_solution' = best_solution) =>
              /\ best_solution \in DOMAIN heap'
              /\ heap'[best_solution] = heap[best_solution]
        /\ pc' \in {"return", "done"} =>
              /\ best_solution' \in DOMAIN heap'
              /\ best_fitness' \in FinalScores(ml_model', room_poly', furniture_items',
                                               heap'[best_solution'])
      ]_vars

\* C26 witness: a list of the initial population, recorded as best-ever in
\* generation 0, has been returned after two rounds of breeding in which a
\* child built from it was mutated.
C26_Witness ==
    /\ pc = "done"
    /\ gen = 2
    /\ mutated = 1
    /\ pop_size = 2
    /\ best_solution \in 1..pop_size
    /\ best_fitness \in FinalScores(ml_model, room_poly, furniture_items,
                                    heap[best_solution])
    /\ \E id \in DOMAIN heap : heap[id] # heap[best_solution]

\* C27: with no approximator loaded, if some candidate evaluated in some
\* generation of the run scored >= 0 (was feasible), the returned fitness
\* is >= 0 and the returned layout is feasible.
C27_FeasibleBeatsInfeasible ==
    (pc \in {"return", "done"} /\ ~ml_model.present /\ top.fit >= 0) =>
        /\ best_fitness >= 0
        /\ Feasible(heap[best_solution])

\* C27 witness: a feasible child scoring 0 is returned; as it replaced the
\* best of the initial population, every member of that population scored
\* below 0.
C27_Witness ==
    /\ pc = "done"
    /\ ~ml_model.present
    /\ gen = 2
    /\ best_solution > pop_size
    /\ best_fitness = 0
    /\ Feasible(heap[best_solution])

\* C28: the population bred in the last generation is never evaluated:
\* the best-ever candidate is only ever taken from the fully evaluated
\* population of a generation 0 .. generations-1, the returned candidate is
\* not a member of the final population, and the best-ever fitness never
\* decreases.
C28_LastOffspringNeverEvaluated ==
    [][ /\ best_solution' # best_solution =>
              /\ gen \in 0..(generations - 1)
              /\ best_solution' \in Range(population)
              /\ Len(fitness_scores) = Len(population)
        /\ Len(fitness_scores') > Len(fitness_scores) => gen \in 0..(generations - 1)
        /\ best_fitness' >= best_fitness
        /\ pc' = "return" =>
              /\ gen' = generations
              /\ fitness_scores' = <<>>
              /\ best_solution' \notin Range(population')
      ]_vars

\* C28 witness: a run of two generations has returned; its final
\* population, bred in generation 1, holds lists that were never scored,
\* and the best-ever candidate was replaced in generation 1.
C28_Witness ==
    /\ pc = "done"
    /\ generations = 2
    /\ gen = 2
    /\ Len(population) = pop_size
    /\ fitness_scores = <<>>
    /\ best_solution > pop_size
    /\ \A k \in 1..Len(population) : population[k] > best_solution

\* C29: whenever the evaluation gives a layout a score >= 0, the hard
\* constraints are satisfied for every footprint of that layout checked
\* against all its other footprints.
C29_ScoredFeasibleMeetsHardConstraints ==
    (pc = "track" /\ probe # <<>>) =>
        \A k \in DOMAIN probe :
            fitness_scores[k] >= 0 => \A i \in DOMAIN probe[k] : probe[k][i]

\* C29 witness: shelf and table stand side by side, their footprints
\* sharing an edge and no area, with the lamp apart: the layout scores 0
\* and all three footprints satisfy the hard constraints.
C29_Witness ==
    /\ pc = "track"
    /\ probe # <<>>
    /\ furniture_items = <<Shelf, Table, Lamp>>
    /\ fitness_scores[1] = 0
    /\ check_intersection(PolysOf(1)[1], PolysOf(1)[2])
    /\ PairOverlap(1, 1, 2) = 0
    /\ probe[1] = << TRUE, TRUE, TRUE >>

\* every item of the furniture list is at least 0.2 wide and 0.2 deep
AllAtLeastFifthMetre(items) ==
    \A i \in DOMAIN items : MinOf({items[i].width, items[i].depth}) >= MM \div 5

\* C30: a feasible layout all of whose items have min(width, depth) >= 0.2
\* scores exactly 0 and normalises to exactly 50, because the centre of a
\* contained footprint is at least min(width, depth) / 2 from the room
\* boundary and so never earns the wall bonus.
C30_WideItemsScoreZero ==
    \A k \in DOMAIN fitness_scores :
        (AllAtLeastFifthMetre(furniture_items) /\ ~Infeasible(k)) =>
            /\ \A i \in DOMAIN PolysOf(k) :
                  2 * get_nearest_wall_distance(room_poly, PolysOf(k)[i])
                     >= MinOf({furniture_items[i].width, furniture_items[i].depth})
            /\ fitness_scores[k] = 0
            /\ calculate_normalized_score(furniture_items, fitness_scores[k])
                  = 50 * PctUnit

\* C30 witness: the shelf, 0.2 deep, stands turned and flush against the
\* wall, its centre exactly 0.1 from it, beside the table; the layout is
\* feasible and scores 0.
C30_Witness ==
    /\ furniture_items = <<Shelf, Table>>
    /\ Len(fitness_scores) = 2
    /\ ~Infeasible(1)
    /\ heap[1][1].x = MM \div 10
    /\ heap[1][1].rot = 90
    /\ PolysOf(1)[1].minx = room_poly.minx
    /\ get_nearest_wall_distance(room_poly, PolysOf(1)[1]) = MM \div 10
    /\ fitness_scores[1] = 0

====
